---- MODULE Spec2Model ----
(***************************************************************************)
(* Synthizer: the SPSC AudioRing (include/synthizer/audio_ring.hpp) and    *)
(* the per-tick scaffolding of global effects                              *)
(* (include/synthizer/effects/global_effect.hpp).                          *)
(*                                                                         *)
(* The ring is modelled with one producer thread and one consumer thread.  *)
(* Every access to the shared atomic counter and to the ring's storage is  *)
(* a step of its own; the fields that only one side touches are updated    *)
(* together with the neighbouring shared access of that side.              *)
(*                                                                         *)
(* A load of the counter reads its latest value. The relaxed load of       *)
(* beginWrite and the acquire load of beginRead may in fact return an      *)
(* older value of the counter: an older value shows the producer less free *)
(* space and the consumer fewer samples, as a load scheduled earlier does  *)
(* here. The wait on read_end_event acquires what signal() released,       *)
(* so the load after a wait sees the fetch_sub that preceded the signal.   *)
(*                                                                         *)
(* A global effect is ticked by the audio thread alone: the routers and    *)
(* run are calls of that thread, one after the other.                      *)
(*                                                                         *)
(* Spec and FairSpec run the ring with callers free in their arguments;    *)
(* BlockSpec runs it with callers that request fixed-size blocks;          *)
(* ChunkSpec starts with a grant on each side and runs the commits alone;  *)
(* EffectSpec runs a global effect; DesignSpec runs the C API's            *)
(* syz_biquadDesignIdentity (src/filter_properties.cpp) on any struct.     *)
(***************************************************************************)
EXTENDS Integers, Sequences, FiniteSets, TLC

(* ------------------------------ bounds -------------------------------- *)

\* data_provider.size(): the capacity of the ring under test.
RingSize == 3

\* The producer commits at most this many samples in one behaviour.
MaxSamples == 5

\* Saturation of the count of consecutive underflowing beginRead calls.
MaxUnderflows == 1

\* std::size_t arithmetic is modular; the word is scaled down to this modulus.
SizeTModulus == 16

\* config::BLOCK_SIZE and config::MAX_CHANNELS, scaled down.
BLOCK_SIZE == 2
MAX_CHANNELS == 2

\* Sources routed to the effect.
NumSources == 2

\* Ticks of the audio thread in one behaviour.
MaxTicks == 3

\* The coefficients a caller's syz_BiquadConfig may hold are 0 .. MaxCoef.
MaxCoef == 2

(* ----------------------------- constants ------------------------------ *)

\* The null pointer in a returned (len, ptr) pair; other pointers are indices
\* into data_provider.
nullptr == -1

VARIABLES
    \* AudioRingBase members
    data,                \* data_provider: index -> sample
    write_pointer,
    read_pointer,
    samples_in_buffer,   \* std::atomic<std::size_t>
    pending_write_size,
    pending_read_size,
    read_end_event,      \* AutoResetEvent: TRUE when signalled
    \* producer thread
    ppc,                 \* position of the producer
    w_requested,         \* beginWrite's argument
    w_maxAvailable,      \* beginWrite's argument
    w_ret,               \* the tuple beginWrite returned, while its caller uses it
    w_filled,            \* samples of the granted region the producer has stored
    w_amount,            \* endWrite's argument while endWrite is in progress
    \* consumer thread
    cpc,                 \* position of the consumer
    r_requested,         \* beginRead's argument, while its caller uses the regions
    r_maxAvailable,      \* beginRead's argument, while its caller uses the regions
    r_ret,               \* the tuple beginRead returned, while its caller uses it
    r_buf,               \* samples copied out of the granted region, not yet committed
    r_amount,            \* endRead's argument while endRead is in progress
    \* history
    written,             \* samples committed by endWrite, in order
    consumed,            \* samples committed by endRead, in order
    underflows,          \* consecutive underflowing beginRead calls so far
    recovered,           \* underflowing calls that preceded the last granted beginRead
    \* the library's user
    block,               \* per side, the size a fixed-block user requests; 0: any size
    grant,               \* the ring's fields as the behaviour began
    config,              \* a struct syz_BiquadConfig of the C API's caller
    design_call,         \* the last filter-design call: its argument and return code
    \* GlobalEffect members
    input_buffer,        \* std::array<float, BLOCK_SIZE * MAX_CHANNELS>
    channels,
    time_in_blocks,
    last_channels,
    biquad_filter,       \* std::shared_ptr<BiquadFilter>: NoFilter or the filter
    filter_property,     \* the effect's filter property: [cfg, changed]
    \* history of the effect
    routed,              \* the sources routed since the last run returned
    delivered,           \* the sources routed before the last run, since the one before
    effect_call,         \* the arguments of the last runEffect invocation
    run_trace,           \* the calls the last run made, in order
    allocations          \* objects created by the audio thread so far

ringVars == <<data, write_pointer, read_pointer, samples_in_buffer,
              pending_write_size, pending_read_size, read_end_event>>
producerVars == <<ppc, w_requested, w_maxAvailable, w_ret, w_filled, w_amount>>
consumerVars == <<cpc, r_requested, r_maxAvailable, r_ret, r_buf, r_amount>>
historyVars == <<written, consumed, underflows, recovered>>
allRingVars == <<ringVars, producerVars, consumerVars, historyVars>>
effectVars == <<input_buffer, channels, time_in_blocks, last_channels,
                biquad_filter, filter_property, routed, delivered, effect_call,
                run_trace, allocations>>
userVars == <<block, grant, config, design_call>>
vars == <<allRingVars, effectVars, userVars>>

(* ------------------------------ helpers ------------------------------- *)

Min(a, b) == IF a <= b THEN a ELSE b

\* AudioRingBase::size()
size == RingSize

\* Unsigned std::size_t arithmetic.
SizeT(x) == x % SizeTModulus

\* Bug: the wrap is forgotten, the second region is never returned.
Regions_NoWrap(pointer, allocating) ==
    <<Min(size - pointer, allocating), pointer, 0, nullptr>>

\* Bug: the pointer's own slot is left out of the first region.
Regions_OffByOne(pointer, allocating) ==
    LET size1 == Min(size - pointer - 1, allocating)
    IN  IF size1 = allocating
        THEN <<size1, pointer, 0, nullptr>>
        ELSE <<size1, pointer, allocating - size1, 0>>

\* The tuple both begin calls return once `allocating` samples are granted at
\* `pointer`: (size1, ptr1, size2, ptr2).
Regions(pointer, allocating) ==
    LET size1 == Min(size - pointer, allocating)
    IN  IF size1 = allocating
        THEN <<size1, pointer, 0, nullptr>>
        ELSE <<size1, pointer, allocating - size1, 0>>

\* The i-th (from 0) index of the storage a returned tuple designates.
RegionIndex(ret, i) == IF i < ret[1] THEN ret[2] + i ELSE ret[4] + (i - ret[1])

\* The indices a returned tuple designates.
RegionSet(ret) == {RegionIndex(ret, i) : i \in 0 .. (ret[1] + ret[3] - 1)}

SubSeqFrom(s, n) == SubSeq(s, n + 1, Len(s))

\* No tuple is held: no begin call has returned, or its caller is done with
\* the regions.
NoTuple == <<>>

\* The user of a side requests whatever sizes it likes.
AnySize == [write |-> 0, read |-> 0]

\* The fields of the ring that endWrite and endRead update, and how many
\* samples each side has committed.
Snapshot ==
    [write_pointer |-> write_pointer,
     pending_write_size |-> pending_write_size,
     written |-> Len(written),
     read_pointer |-> read_pointer,
     pending_read_size |-> pending_read_size,
     consumed |-> Len(consumed),
     samples_in_buffer |-> samples_in_buffer]

\* The sizes that divide the ring's size.
Divisors == {k \in 1 .. size : size % k = 0}

(* ------------------------------- Init --------------------------------- *)

RingInit ==
    /\ data = [i \in 0 .. (size - 1) |-> 0]
    /\ write_pointer = 0
    /\ read_pointer = 0
    /\ samples_in_buffer = 0
    /\ pending_write_size = 0
    /\ pending_read_size = 0
    /\ read_end_event = FALSE
    /\ ppc = "idle"
    /\ w_requested = 0
    /\ w_maxAvailable = FALSE
    /\ w_ret = NoTuple
    /\ w_filled = 0
    /\ w_amount = 0
    /\ cpc = "idle"
    /\ r_requested = 0
    /\ r_maxAvailable = FALSE
    /\ r_ret = NoTuple
    /\ r_buf = <<>>
    /\ r_amount = 0
    /\ written = <<>>
    /\ consumed = <<>>
    /\ underflows = 0
    /\ recovered = 0

(* ----------------------------- producer ------------------------------- *)

\* beginWrite is entered: the two assertions hold of the arguments.
BeginWrite(requested, maxAvailable) ==
    /\ ppc = "idle"
    /\ maxAvailable \/ requested # 0
    /\ requested <= size
    /\ ppc' = "beginWrite_load"
    /\ w_requested' = requested
    /\ w_maxAvailable' = maxAvailable
    /\ UNCHANGED <<userVars, effectVars, ringVars, w_ret, w_filled, w_amount,
                   consumerVars, historyVars>>

\* Bug: the producer never waits for space.
BeginWriteMustWait_Never(available, requested) == FALSE

\* Bug: the loop's comparison is off by one.
BeginWriteMustWait_OffByOne(available, requested) == available + 1 < requested

\* The loop's condition: the producer has to wait.
BeginWriteMustWait(available, requested) == available < requested

\* Bug: maxAvailable is ignored, the request is granted as it is.
BeginWriteAllocating_IgnoresMax(available, requested, maxAvailable) == requested

\* How much beginWrite grants.
BeginWriteAllocating(available, requested, maxAvailable) ==
    IF maxAvailable THEN available ELSE requested

\* One pass of the do-while: the relaxed load of the counter, then either the
\* branch into read_end_event.wait() or the allocation and the return.
BeginWriteLoad ==
    /\ ppc = "beginWrite_load"
    /\ LET available == SizeT(size - samples_in_buffer)
       IN  IF BeginWriteMustWait(available, w_requested)
           THEN /\ ppc' = "beginWrite_wait"
                /\ UNCHANGED <<effectVars, pending_write_size, w_ret,
                               w_filled>>
           ELSE LET allocating ==
                        BeginWriteAllocating(available, w_requested, w_maxAvailable)
                IN  /\ pending_write_size' = allocating
                    /\ w_ret' = Regions(write_pointer, allocating)
                    /\ w_filled' = 0
                    /\ ppc' = "fill"
    /\ UNCHANGED <<userVars, effectVars, data, write_pointer, read_pointer,
                   samples_in_buffer, pending_read_size, read_end_event,
                   w_requested, w_maxAvailable, w_amount, consumerVars,
                   historyVars>>

\* AutoResetEvent::wait(): returns once the event is signalled, and resets it.
BeginWriteWait ==
    /\ ppc = "beginWrite_wait"
    /\ read_end_event
    /\ read_end_event' = FALSE
    /\ ppc' = "beginWrite_load"
    /\ UNCHANGED <<userVars, effectVars, data, write_pointer, read_pointer,
                   samples_in_buffer, pending_write_size, pending_read_size,
                   w_requested, w_maxAvailable, w_ret, w_filled, w_amount,
                   consumerVars, historyVars>>

\* The sample the producer stores at offset i of a granted region: the samples
\* are numbered in the order in which they are committed.
NextSample(i) == Len(written) + i + 1

\* The caller stores one sample into the region beginWrite returned.
Fill ==
    /\ ppc = "fill"
    /\ w_filled < w_ret[1] + w_ret[3]
    /\ data' = [data EXCEPT ![RegionIndex(w_ret, w_filled)] = NextSample(w_filled)]
    /\ w_filled' = w_filled + 1
    /\ UNCHANGED <<userVars, effectVars, write_pointer, read_pointer,
                   samples_in_buffer, pending_write_size, pending_read_size,
                   read_end_event, ppc, w_requested, w_maxAvailable, w_ret,
                   w_amount, consumerVars, historyVars>>

\* The caller has stored the whole region.
FillDone ==
    /\ ppc = "fill"
    /\ w_filled = w_ret[1] + w_ret[3]
    /\ ppc' = "idle"
    /\ w_ret' = NoTuple
    /\ w_filled' = 0
    /\ w_requested' = 0
    /\ w_maxAvailable' = FALSE
    /\ UNCHANGED <<userVars, effectVars, ringVars, w_amount, consumerVars,
                   historyVars>>

\* Bug: write_pointer is advanced without the wrap.
EndWrite_NoModulo(amount) ==
    /\ ppc = "idle"
    /\ amount <= pending_write_size
    /\ Len(written) + amount <= MaxSamples
    /\ write_pointer' = write_pointer + amount
    /\ pending_write_size' = SizeT(pending_write_size - amount)
    /\ w_amount' = amount
    /\ ppc' = "endWrite_add"
    /\ UNCHANGED <<userVars, effectVars, data, read_pointer,
                   samples_in_buffer, pending_read_size, read_end_event,
                   w_requested, w_maxAvailable, w_ret, w_filled, consumerVars,
                   historyVars>>

\* Bug: endWrite(amount) drops what it does not commit of the pending write.
EndWrite_DropsRest(amount) ==
    /\ ppc = "idle"
    /\ amount <= pending_write_size
    /\ Len(written) + amount <= MaxSamples
    /\ write_pointer' = (write_pointer + amount) % size
    /\ pending_write_size' = 0
    /\ w_amount' = amount
    /\ ppc' = "endWrite_add"
    /\ UNCHANGED <<userVars, effectVars, data, read_pointer,
                   samples_in_buffer, pending_read_size, read_end_event,
                   w_requested, w_maxAvailable, w_ret, w_filled, consumerVars,
                   historyVars>>

\* endWrite(amount) up to the fetch_add: the producer's own fields.
EndWrite(amount) ==
    /\ ppc = "idle"
    /\ amount <= pending_write_size
    /\ Len(written) + amount <= MaxSamples
    /\ write_pointer' = (write_pointer + amount) % size
    /\ pending_write_size' = SizeT(pending_write_size - amount)
    /\ w_amount' = amount
    /\ ppc' = "endWrite_add"
    /\ UNCHANGED <<userVars, effectVars, data, read_pointer,
                   samples_in_buffer, pending_read_size, read_end_event,
                   w_requested, w_maxAvailable, w_ret, w_filled, consumerVars,
                   historyVars>>

\* endWrite(): commit the entire write.
EndWriteAll == EndWrite(pending_write_size)

\* The n samples that end at pointer p.
Committed(p, n) == [i \in 1 .. n |-> data[(p + size - n + i - 1) % size]]

\* Bug: the fetch_add publishes the rest of the pending write as well.
EndWriteAdd_Pending ==
    /\ ppc = "endWrite_add"
    /\ samples_in_buffer' = SizeT(samples_in_buffer + w_amount + pending_write_size)
    /\ written' = written \o Committed(write_pointer, w_amount)
    /\ w_amount' = 0
    /\ ppc' = "idle"
    /\ UNCHANGED <<userVars, effectVars, data, write_pointer, read_pointer,
                   pending_write_size, pending_read_size, read_end_event,
                   w_requested, w_maxAvailable, w_ret, w_filled, consumerVars,
                   consumed, underflows, recovered>>

\* samples_in_buffer.fetch_add(amount, release): publication.
EndWriteAdd ==
    /\ ppc = "endWrite_add"
    /\ samples_in_buffer' = SizeT(samples_in_buffer + w_amount)
    /\ written' = written \o Committed(write_pointer, w_amount)
    /\ w_amount' = 0
    /\ ppc' = "idle"
    /\ UNCHANGED <<userVars, effectVars, data, write_pointer, read_pointer,
                   pending_write_size, pending_read_size, read_end_event,
                   w_requested, w_maxAvailable, w_ret, w_filled, consumerVars,
                   consumed, underflows, recovered>>

Producer ==
    \/ \E requested \in 0 .. size, maxAvailable \in BOOLEAN :
           BeginWrite(requested, maxAvailable)
    \/ BeginWriteLoad
    \/ BeginWriteWait
    \/ Fill
    \/ FillDone
    \/ \E amount \in 0 .. size : EndWrite(amount)
    \/ EndWriteAll
    \/ EndWriteAdd

(* ----------------------------- consumer ------------------------------- *)

\* Bug: only the empty ring is taken for an underflow.
BeginReadUnderflow_OnlyEmpty(available, requested, maxAvailable) == available = 0

\* Bug: maxAvailable is ignored, too little is an underflow in any case.
BeginReadUnderflow_IgnoresMax(available, requested, maxAvailable) ==
    available = 0 \/ available < requested

\* beginRead's early return: nothing at all, or too little and not maxAvailable.
BeginReadUnderflow(available, requested, maxAvailable) ==
    available = 0 \/ (available < requested /\ maxAvailable = FALSE)

\* How much beginRead grants.
BeginReadAllocating(available, requested, maxAvailable) ==
    IF maxAvailable THEN available ELSE requested

\* beginRead: the acquire load of the counter and, on the consumer's own
\* fields, the rest of the call. It has no wait in it.
BeginRead(requested, maxAvailable) ==
    /\ cpc = "idle"
    /\ maxAvailable \/ requested # 0
    /\ requested <= size
    /\ LET available == samples_in_buffer
       IN  IF BeginReadUnderflow(available, requested, maxAvailable)
           THEN /\ r_ret' = <<0, nullptr, 0, nullptr>>
                /\ underflows' = Min(underflows + 1, MaxUnderflows)
                /\ UNCHANGED <<effectVars, pending_read_size, r_requested,
                               r_maxAvailable, r_buf, cpc, recovered>>
           ELSE LET allocating ==
                        BeginReadAllocating(available, requested, maxAvailable)
                IN  /\ pending_read_size' = allocating
                    /\ r_requested' = requested
                    /\ r_maxAvailable' = maxAvailable
                    /\ r_ret' = Regions(read_pointer, allocating)
                    /\ r_buf' = <<>>
                    /\ cpc' = "copy"
                    /\ recovered' = underflows
                    /\ underflows' = 0
    /\ UNCHANGED <<userVars, effectVars, data, write_pointer, read_pointer,
                   samples_in_buffer, pending_write_size, read_end_event,
                   r_amount, producerVars, written, consumed>>

\* The caller loads one sample from the region beginRead returned.
Copy ==
    /\ cpc = "copy"
    /\ Len(r_buf) < r_ret[1] + r_ret[3]
    /\ r_buf' = Append(r_buf, data[RegionIndex(r_ret, Len(r_buf))])
    /\ UNCHANGED <<userVars, effectVars, ringVars, cpc, r_requested,
                   r_maxAvailable, r_ret, r_amount, producerVars,
                   historyVars>>

\* The caller has loaded the whole region.
CopyDone ==
    /\ cpc = "copy"
    /\ Len(r_buf) = r_ret[1] + r_ret[3]
    /\ r_requested' = 0
    /\ r_maxAvailable' = FALSE
    /\ r_ret' = NoTuple
    /\ cpc' = "idle"
    /\ UNCHANGED <<userVars, effectVars, ringVars, r_buf, r_amount,
                   producerVars, historyVars>>

\* Bug: endRead takes the amount off the write side's pending size.
EndRead_WrongPending(amount) ==
    /\ cpc = "idle"
    /\ amount <= pending_read_size
    /\ read_pointer' = (read_pointer + amount) % size
    /\ pending_write_size' = SizeT(pending_write_size - amount)
    /\ r_amount' = amount
    /\ cpc' = "endRead_sub"
    /\ UNCHANGED <<userVars, effectVars, data, write_pointer,
                   samples_in_buffer, pending_read_size, read_end_event,
                   r_requested, r_maxAvailable, r_ret, r_buf, producerVars,
                   historyVars>>

\* endRead(amount) up to the fetch_sub: the consumer's own fields.
EndRead(amount) ==
    /\ cpc = "idle"
    /\ amount <= pending_read_size
    /\ read_pointer' = (read_pointer + amount) % size
    /\ pending_read_size' = SizeT(pending_read_size - amount)
    /\ r_amount' = amount
    /\ cpc' = "endRead_sub"
    /\ UNCHANGED <<userVars, effectVars, data, write_pointer,
                   samples_in_buffer, pending_write_size, read_end_event,
                   r_requested, r_maxAvailable, r_ret, r_buf, producerVars,
                   historyVars>>

\* endRead(): commit the entire read.
EndReadAll == EndRead(pending_read_size)

\* Bug: the whole pending read is subtracted, not the committed amount.
EndReadSub_Whole ==
    /\ cpc = "endRead_sub"
    /\ samples_in_buffer' = SizeT(samples_in_buffer - (r_amount + pending_read_size))
    /\ consumed' = consumed \o SubSeq(r_buf, 1, r_amount)
    /\ r_buf' = SubSeqFrom(r_buf, r_amount)
    /\ cpc' = "endRead_signal"
    /\ UNCHANGED <<userVars, effectVars, data, write_pointer, read_pointer,
                   pending_write_size, pending_read_size, read_end_event,
                   r_requested, r_maxAvailable, r_ret, r_amount, producerVars,
                   written, underflows, recovered>>

\* samples_in_buffer.fetch_sub(amount, release): the samples are given back.
EndReadSub ==
    /\ cpc = "endRead_sub"
    /\ samples_in_buffer' = SizeT(samples_in_buffer - r_amount)
    /\ consumed' = consumed \o SubSeq(r_buf, 1, r_amount)
    /\ r_buf' = SubSeqFrom(r_buf, r_amount)
    /\ cpc' = "endRead_signal"
    /\ UNCHANGED <<userVars, effectVars, data, write_pointer, read_pointer,
                   pending_write_size, pending_read_size, read_end_event,
                   r_requested, r_maxAvailable, r_ret, r_amount, producerVars,
                   written, underflows, recovered>>

\* AutoResetEvent::signal(): the event becomes (or stays) signalled.
Signal(event) == TRUE

\* Bug: endRead returns without signalling the event.
EndReadSignal_Lost ==
    /\ cpc = "endRead_signal"
    /\ r_amount' = 0
    /\ cpc' = "idle"
    /\ UNCHANGED <<userVars, effectVars, data, write_pointer, read_pointer,
                   samples_in_buffer, pending_write_size, pending_read_size,
                   read_end_event, r_requested, r_maxAvailable, r_ret, r_buf,
                   producerVars, historyVars>>

\* read_end_event.signal(), the last statement of endRead.
EndReadSignal ==
    /\ cpc = "endRead_signal"
    /\ read_end_event' = Signal(read_end_event)
    /\ r_amount' = 0
    /\ cpc' = "idle"
    /\ UNCHANGED <<userVars, effectVars, data, write_pointer, read_pointer,
                   samples_in_buffer, pending_write_size, pending_read_size,
                   r_requested, r_maxAvailable, r_ret, r_buf, producerVars,
                   historyVars>>

Consumer ==
    \/ \E requested \in 0 .. size, maxAvailable \in BOOLEAN :
           BeginRead(requested, maxAvailable)
    \/ Copy
    \/ CopyDone
    \/ \E amount \in 0 .. size : EndRead(amount)
    \/ EndReadAll
    \/ EndReadSub
    \/ EndReadSignal

(* --------------------------- global effect ---------------------------- *)

\* The cells of input_buffer.
Cells == 0 .. (BLOCK_SIZE * MAX_CHANNELS - 1)

\* biquad_filter == nullptr
NoFilter == [channels |-> 0]

\* No runEffect invocation yet.
NoCall == [made |-> FALSE]

\* What syz_biquadDesignIdentity produces: the filter that changes nothing.
IdentityConfig == [b0 |-> 1, b1 |-> 0, b2 |-> 0, a1 |-> 0, a2 |-> 0, gain |-> 1]

\* A filter with memory: each channel delayed by one frame.
DelayConfig == [b0 |-> 0, b1 |-> 1, b2 |-> 0, a1 |-> 0, a2 |-> 0, gain |-> 1]

\* The values of the effect's filter property used here.
FilterConfigs == {IdentityConfig, DelayConfig}

\* Direct form I state of one channel: x[n-1], x[n-2], y[n-1], y[n-2].
ZeroHistory == [x1 |-> 0, x2 |-> 0, y1 |-> 0, y2 |-> 0]

\* createBiquadFilter(channels): a new filter object, identity, no history.
createBiquadFilter(ch) ==
    [channels |-> ch, cfg |-> IdentityConfig,
     hist |-> [c \in 0 .. (ch - 1) |-> ZeroHistory]]

\* BiquadFilter::configure
configure(filter, cfg) == [filter EXCEPT !.cfg = cfg]

\* One output sample of the biquad.
BiquadSample(cfg, h, x) ==
    cfg.gain * (cfg.b0 * x + cfg.b1 * h.x1 + cfg.b2 * h.x2
                - cfg.a1 * h.y1 - cfg.a2 * h.y2)

\* The cells of the first k frames of an interleaved bus of ch channels.
BusCells(ch, k) == 0 .. (ch * k - 1)

\* BiquadFilter::processBlock(in, in, false) on frames n .. BLOCK_SIZE - 1: the
\* result is the filter (its history advanced) and the bus (filtered in place).
RECURSIVE ProcessFrames(_, _, _)
ProcessFrames(n, filter, buf) ==
    IF n = BLOCK_SIZE
    THEN [filter |-> filter, buf |-> buf]
    ELSE LET ch == filter.channels
             y == [c \in 0 .. (ch - 1) |->
                      BiquadSample(filter.cfg, filter.hist[c], buf[n * ch + c])]
             hist == [c \in 0 .. (ch - 1) |->
                         [x1 |-> buf[n * ch + c], x2 |-> filter.hist[c].x1,
                          y1 |-> y[c], y2 |-> filter.hist[c].y1]]
             out == [i \in Cells |->
                        IF i \in (n * ch) .. (n * ch + ch - 1)
                        THEN y[i - n * ch] ELSE buf[i]]
         IN  ProcessFrames(n + 1, [filter EXCEPT !.hist = hist], out)

processBlock(filter, buf) == ProcessFrames(0, filter, buf)

\* What a runEffect implementation may leave in the input bus it is handed.
Scribbled(buf, ch, scribble) ==
    IF scribble THEN [i \in Cells |-> IF i \in BusCells(ch, BLOCK_SIZE) THEN 1 ELSE buf[i]]
    ELSE buf

\* Bug: only the first channel's share of the bus is reset.
FillZero_OneChannel(buf, ch) ==
    [i \in Cells |-> IF i \in BusCells(Min(ch, 1), BLOCK_SIZE) THEN 0 ELSE buf[i]]

\* std::fill(&input_buffer[0], &input_buffer[channels * BLOCK_SIZE], 0.0f)
FillZero(buf, ch) ==
    [i \in Cells |-> IF i \in BusCells(ch, BLOCK_SIZE) THEN 0 ELSE buf[i]]

\* The effect as its constructor leaves it, for `ch` channels.
EffectInit(ch, changed) ==
    /\ input_buffer = [i \in Cells |-> 0]
    /\ channels = ch
    /\ time_in_blocks = 0
    /\ last_channels = 0
    /\ biquad_filter = NoFilter
    /\ filter_property = [cfg |-> IdentityConfig, changed |-> changed]
    /\ routed = {}
    /\ delivered = {}
    /\ effect_call = NoCall
    /\ run_trace = <<>>
    /\ allocations = 0

\* An external thread sets the effect's filter property.
SetFilter(cfg) ==
    /\ filter_property' = [cfg |-> cfg, changed |-> TRUE]
    /\ filter_property' # filter_property
    /\ UNCHANGED <<userVars, allRingVars, input_buffer, channels,
                   time_in_blocks, last_channels, biquad_filter, routed,
                   delivered, effect_call, run_trace, allocations>>

\* The block source k hands to the router, as a bus of the effect's format.
SourceBus(k) == [i \in Cells |-> (i + k) % (k + 1)]

\* The router adds source k's block into the effect's input bus; a source is
\* routed once per tick.
Route(k) ==
    /\ k \notin routed
    /\ channels # 0
    /\ input_buffer' = [i \in Cells |->
                           IF i \in BusCells(channels, BLOCK_SIZE)
                           THEN input_buffer[i] + SourceBus(k)[i]
                           ELSE input_buffer[i]]
    /\ routed' = routed \cup {k}
    /\ UNCHANGED <<userVars, allRingVars, channels, time_in_blocks,
                   last_channels, biquad_filter, filter_property, delivered,
                   effect_call, run_trace, allocations>>

\* The fields GlobalEffect::run works on.
EffectState ==
    [input_buffer |-> input_buffer, time_in_blocks |-> time_in_blocks,
     last_channels |-> last_channels, biquad_filter |-> biquad_filter,
     filter_property |-> filter_property, effect_call |-> effect_call,
     run_trace |-> <<>>, allocations |-> allocations]

\* run, lines 33-35: the filter is created when there is none, or the channel
\* count changed, and the effect has channels.
RunCreateFilter(e) ==
    IF (e.biquad_filter = NoFilter \/ channels # e.last_channels) /\ channels # 0
    THEN [e EXCEPT !.biquad_filter = createBiquadFilter(channels),
                   !.allocations = @ + 1,
                   !.run_trace = Append(@, "createBiquadFilter")]
    ELSE e

\* run, lines 36-42: the filter, reconfigured if the property changed, runs on
\* the input bus in place.
RunFilter(e) ==
    LET configured ==
            IF e.filter_property.changed
            THEN configure(e.biquad_filter, e.filter_property.cfg)
            ELSE e.biquad_filter
        done == processBlock(configured, e.input_buffer)
        f == IF e.biquad_filter # NoFilter
             THEN [e EXCEPT !.filter_property.changed = FALSE,
                            !.biquad_filter = done.filter,
                            !.input_buffer = done.buf,
                            !.run_trace = Append(@, "processBlock")]
             ELSE e
    IN  [f EXCEPT !.last_channels = channels]

\* run, line 44: runEffect is handed the input bus.
RunEffect(e, scribble) ==
    [e EXCEPT !.effect_call =
                  [made |-> TRUE, input_channels |-> channels,
                   input |-> e.input_buffer],
              !.input_buffer = Scribbled(@, channels, scribble),
              !.run_trace = Append(@, "runEffect")]

\* run, lines 49-50: the input bus is reset for the next tick.
RunZero(e) ==
    [e EXCEPT !.input_buffer = FillZero(@, channels),
              !.time_in_blocks = @ + 1,
              !.run_trace = Append(@, "fill")]

\* Bug: the bus is reset before runEffect is called.
RunBody_ZeroFirst(e, scribble) ==
    RunEffect(RunZero(RunFilter(RunCreateFilter(e))), scribble)

\* The body of GlobalEffect::run.
RunBody(e, scribble) ==
    RunZero(RunEffect(RunFilter(RunCreateFilter(e)), scribble))

\* GlobalEffect::run(channels, destination), called by the audio thread once
\* per tick. Both arguments go to runEffect as they are; `scribble` is whether
\* the runEffect implementation overwrites the bus it is handed.
Run(scribble) ==
    /\ time_in_blocks < MaxTicks
    /\ LET e == RunBody(EffectState, scribble)
       IN  /\ input_buffer' = e.input_buffer
           /\ time_in_blocks' = e.time_in_blocks
           /\ last_channels' = e.last_channels
           /\ biquad_filter' = e.biquad_filter
           /\ filter_property' = e.filter_property
           /\ effect_call' = e.effect_call
           /\ run_trace' = e.run_trace
           /\ allocations' = e.allocations
    /\ delivered' = routed
    /\ routed' = {}
    /\ UNCHANGED <<userVars, allRingVars, channels>>

Effect ==
    \/ \E cfg \in FilterConfigs : SetFilter(cfg)
    \/ \E k \in 1 .. NumSources : Route(k)
    \/ \E scribble \in BOOLEAN : Run(scribble)

(* --------------------------- filter design ---------------------------- *)

\* syz_BiquadConfig(): the value-initialised struct.
ZeroConfig == [b0 |-> 0, b1 |-> 0, b2 |-> 0, a1 |-> 0, a2 |-> 0, gain |-> 0]

\* What a caller's struct may hold.
Configs ==
    [b0 : 0 .. MaxCoef, b1 : 0 .. MaxCoef, b2 : 0 .. MaxCoef,
     a1 : 0 .. MaxCoef, a2 : 0 .. MaxCoef, gain : 0 .. MaxCoef]

\* The caller's struct holds cfg and no design function was called on it.
DesignInit(cfg) ==
    /\ config = cfg
    /\ design_call = NoCall

\* SYZ_PROLOGUE ... SYZ_EPILOGUE: the body runs, and an exception it throws
\* becomes an error code.
SYZ_PROLOGUE == TRUE

\* Bug: the struct is not reset, only b0 and gain are stored.
biquadDesignIdentity_NoReset(filter) ==
    [filter |-> [filter EXCEPT !.b0 = 1, !.gain = 1], code |-> 0]

\* The body of syz_biquadDesignIdentity: what it leaves in *filter, and the
\* code it returns.
biquadDesignIdentity(filter) ==
    LET reset == ZeroConfig
    IN  [filter |-> [reset EXCEPT !.b0 = 1, !.gain = 1], code |-> 0]

\* syz_biquadDesignIdentity(&config)
DesignIdentity ==
    /\ SYZ_PROLOGUE
    /\ LET out == biquadDesignIdentity(config)
       IN  /\ config' = out.filter
           /\ design_call' = [made |-> TRUE, filter |-> config, code |-> out.code]
    /\ UNCHANGED <<allRingVars, effectVars, block, grant>>

(* ------------------------------- Spec --------------------------------- *)

\* One ring, a producer thread and a consumer thread.
Init ==
    /\ RingInit
    /\ EffectInit(MAX_CHANNELS, FALSE)
    /\ block = AnySize
    /\ grant = Snapshot
    /\ DesignInit(ZeroConfig)

Next == Producer \/ Consumer

Spec == Init /\ [][Next]_vars

\* The scheduler runs the producer thread whenever it can run, and a consumer
\* inside endRead finishes the call.
FairSpec == Spec /\ WF_vars(Producer) /\ WF_vars(EndReadSub \/ EndReadSignal)

\* A ring of which at least one side is used in fixed blocks: that side requests
\* the same size, a divisor of size(), on every begin call, never with
\* maxAvailable, and commits every granted request whole before the next.
BlockInit ==
    /\ RingInit
    /\ EffectInit(MAX_CHANNELS, FALSE)
    /\ block \in [write : Divisors \cup {0}, read : Divisors \cup {0}] \ {AnySize}
    /\ grant = Snapshot
    /\ DesignInit(ZeroConfig)

\* The user's call of beginWrite: any call, or the fixed-block user's.
BlockBeginWrite(requested, maxAvailable) ==
    /\ block.write # 0 =>
          requested = block.write /\ ~maxAvailable /\ pending_write_size = 0
    /\ BeginWrite(requested, maxAvailable)

\* The user's call of endWrite: the fixed-block user commits the whole grant.
BlockEndWrite(amount) ==
    /\ block.write # 0 => amount = pending_write_size
    /\ EndWrite(amount)

BlockProducer ==
    \/ \E requested \in 0 .. size, maxAvailable \in BOOLEAN :
            BlockBeginWrite(requested, maxAvailable)
    \/ BeginWriteLoad
    \/ BeginWriteWait
    \/ Fill
    \/ FillDone
    \/ \E amount \in 0 .. size : BlockEndWrite(amount)
    \/ EndWriteAdd

\* The user's call of beginRead: any call, or the fixed-block user's.
BlockBeginRead(requested, maxAvailable) ==
    /\ block.read # 0 =>
          requested = block.read /\ ~maxAvailable /\ pending_read_size = 0
    /\ BeginRead(requested, maxAvailable)

\* The user's call of endRead: the fixed-block user commits the whole grant.
BlockEndRead(amount) ==
    /\ block.read # 0 => amount = pending_read_size
    /\ EndRead(amount)

BlockConsumer ==
    \/ \E requested \in 0 .. size, maxAvailable \in BOOLEAN :
            BlockBeginRead(requested, maxAvailable)
    \/ Copy
    \/ CopyDone
    \/ \E amount \in 0 .. size : BlockEndRead(amount)
    \/ EndReadSub
    \/ EndReadSignal

BlockNext == BlockProducer \/ BlockConsumer

BlockSpec == BlockInit /\ [][BlockNext]_vars

\* The sample the producer stored last at index i once it has stored the
\* samples 1 .. n from index 0 on, in order; 0 if it has stored none there.
LastStored(i, n) ==
    LET stored == {s \in 1 .. n : (s - 1) % size = i}
    IN  IF stored = {} THEN 0 ELSE CHOOSE s \in stored : \A t \in stored : t <= s

\* A ring with a grant on each side, both idle: `read` samples were consumed
\* and `committed` more are in the buffer; beginWrite has granted n samples,
\* which the producer has stored, and beginRead has granted m samples, which
\* the consumer has copied.
ChunkRing(read, committed, n, m) ==
    /\ data = [i \in 0 .. (size - 1) |-> LastStored(i, read + committed + n)]
    /\ write_pointer = (read + committed) % size
    /\ read_pointer = read
    /\ samples_in_buffer = committed
    /\ pending_write_size = n
    /\ pending_read_size = m
    /\ read_end_event = (read > 0)
    /\ ppc = "idle"
    /\ w_requested = 0
    /\ w_maxAvailable = FALSE
    /\ w_ret = NoTuple
    /\ w_filled = 0
    /\ w_amount = 0
    /\ cpc = "idle"
    /\ r_requested = 0
    /\ r_maxAvailable = FALSE
    /\ r_ret = NoTuple
    /\ r_buf = [i \in 1 .. m |-> read + i]
    /\ r_amount = 0
    /\ written = [i \in 1 .. (read + committed) |-> i]
    /\ consumed = [i \in 1 .. read |-> i]
    /\ underflows = 0
    /\ recovered = 0

\* The grants are made; only commits follow.
ChunkInit ==
    /\ \E read \in 0 .. (size - 1), committed \in 0 .. size :
        \E n \in 0 .. (size - committed), m \in 0 .. committed :
            ChunkRing(read, committed, n, m)
    /\ EffectInit(MAX_CHANNELS, FALSE)
    /\ block = AnySize
    /\ grant = Snapshot
    /\ DesignInit(ZeroConfig)

ChunkNext ==
    \/ \E amount \in 0 .. size : EndWrite(amount)
    \/ EndWriteAll
    \/ EndWriteAdd
    \/ \E amount \in 0 .. size : EndRead(amount)
    \/ EndReadAll
    \/ EndReadSub
    \/ EndReadSignal

ChunkSpec == ChunkInit /\ [][ChunkNext]_vars

\* A caller's struct of any contents, handed to syz_biquadDesignIdentity.
DesignSpecInit ==
    /\ RingInit
    /\ EffectInit(MAX_CHANNELS, FALSE)
    /\ block = AnySize
    /\ grant = Snapshot
    /\ \E cfg \in Configs : DesignInit(cfg)

DesignNext == DesignIdentity

DesignSpec == DesignSpecInit /\ [][DesignNext]_vars

\* One global effect of any channel count, ticked by the audio thread.
EffectSpecInit ==
    /\ RingInit
    /\ \E ch \in 0 .. MAX_CHANNELS, changed \in BOOLEAN : EffectInit(ch, changed)
    /\ block = AnySize
    /\ grant = Snapshot
    /\ DesignInit(ZeroConfig)

EffectNext == Effect

EffectSpec == EffectSpecInit /\ [][EffectNext]_vars

(* ------------------------------ claims -------------------------------- *)

IsPrefix(s, t) == Len(s) <= Len(t) /\ SubSeq(t, 1, Len(s)) = s

ZeroTuple == <<0, nullptr, 0, nullptr>>

\* C1: the samples the consumer has committed with endRead are, in order and
\* without loss, duplication or reordering, a prefix of the samples the
\* producer stored and committed with endWrite, which are the samples
\* 1, 2, 3, ... it stored in that order.
C1_Fifo ==
    /\ IsPrefix(consumed, written)
    /\ \A i \in 1 .. Len(written) : written[i] = i

\* The consumer has committed more samples than the ring holds, past at
\* least one underflowing beginRead.
C1_Witness == Len(consumed) > RingSize /\ recovered > 0

\* The samples of the ring not yet committed by endRead, oldest first.
Unread == SubSeqFrom(written, Len(consumed))

\* C2: beginRead has no wait: an idle consumer can always call it. An
\* underflowing call returns (0, null, 0, null) and leaves read_pointer, the
\* counter, pending_read_size and the storage as they are. Whatever the
\* consumer has copied out of a granted region is the oldest unread samples, in
\* order, also when underflowing calls came before the grant.
C2_UnderflowHarmless ==
    /\ [](cpc = "idle" =>
            \A requested \in 1 .. size : ENABLED BeginRead(requested, FALSE))
    /\ [](IsPrefix(r_buf, Unread))
    /\ [][underflows' > underflows =>
            /\ r_ret' = ZeroTuple
            /\ cpc' = cpc
            /\ UNCHANGED <<read_pointer, samples_in_buffer, pending_read_size,
                           data, r_buf>>]_vars

\* A granted beginRead that came after an underflowing one, its region copied,
\* with samples consumed before.
C2_Witness ==
    /\ recovered > 0
    /\ cpc = "idle"
    /\ Len(r_buf) > 0
    /\ Len(consumed) > 0

\* The slots of the storage that hold samples not yet committed by endRead.
UnreadSlots == {(k - 1) % size : k \in (Len(consumed) + 1) .. Len(written)}

\* C3: beginWrite(requested, false) returns only from a load of the counter
\* that found at least `requested` free samples; the regions it returns are
\* `requested` long in total; while the producer holds them the free space is
\* at least what is still pending, and they hold no unread sample.
C3_WriteWaitsForSpace ==
    /\ [](pending_write_size + w_amount + samples_in_buffer <= size)
    /\ [](ppc = "fill" => RegionSet(w_ret) \cap UnreadSlots = {})
    /\ [][(ppc = "beginWrite_load" /\ ppc' = "fill" /\ ~w_maxAvailable) =>
            /\ size - samples_in_buffer >= w_requested
            /\ w_ret'[1] + w_ret'[3] = w_requested
            /\ pending_write_size' = w_requested]_vars

\* The producer holds a region of a beginWrite(requested, false) that wraps,
\* after reads, while unread samples are in the ring.
C3_Witness ==
    /\ ppc = "fill"
    /\ ~w_maxAvailable
    /\ w_ret[3] > 0
    /\ samples_in_buffer > 0
    /\ Len(consumed) > 0

\* The producer is inside beginWrite.
InBeginWrite == ppc \in {"beginWrite_load", "beginWrite_wait"}

\* C4: a producer inside beginWrite(requested) returns once the consumer has
\* committed enough reads for the free space to reach `requested`: no wakeup
\* is lost.
C4_ProducerWakes ==
    (InBeginWrite /\ size - samples_in_buffer >= w_requested) ~> (ppc = "fill")

\* The producer found too little space and is about to wait; endRead has since
\* freed enough and signalled the event.
C4_Witness ==
    /\ ppc = "beginWrite_wait"
    /\ read_end_event
    /\ size - samples_in_buffer >= w_requested

\* C5: the counter is between 0 and size() and is the number of samples
\* committed by endWrite less the number committed by endRead; the fetch_add
\* of endWrite(n) raises it by n, the fetch_sub of endRead(n) lowers it by n.
C5_Counter ==
    /\ [](samples_in_buffer \in 0 .. size)
    /\ [](samples_in_buffer = Len(written) - Len(consumed))
    /\ [][(ppc = "endWrite_add" /\ ppc' = "idle") =>
            samples_in_buffer' = samples_in_buffer + w_amount]_vars
    /\ [][(cpc = "endRead_sub" /\ cpc' = "endRead_signal") =>
            samples_in_buffer' = samples_in_buffer - r_amount]_vars

\* The ring is full, after reads, and a chunk of a read is being committed.
C5_Witness ==
    /\ samples_in_buffer = size
    /\ Len(consumed) > 0
    /\ cpc = "endRead_sub"
    /\ r_amount > 0
    /\ pending_read_size > 0

\* The shape of the tuple a begin call returns for `allocated` samples at
\* `pointer`.
RegionShape(ret, pointer, allocated) ==
    /\ ret[1] + ret[3] = allocated
    /\ ret[2] = pointer
    /\ ret[2] + ret[1] <= size
    /\ (ret[3] > 0) <=> (pointer + allocated > size)
    /\ ret[3] > 0 => (ret[4] = 0 /\ ret[3] = pointer + allocated - size)
    /\ ret[3] = 0 => ret[4] = nullptr

\* C6: the tuple of a successful beginWrite or beginRead is one or two regions
\* that add up to the allocated amount: the first at the side's own pointer and
\* inside the ring, the second non-empty exactly when pointer + allocated
\* exceeds size(), and then at index 0 with the rest; otherwise (0, null). The
\* first pointer of beginWrite is never null.
C6_Regions ==
    /\ ppc = "fill" =>
          /\ RegionShape(w_ret, write_pointer, pending_write_size)
          /\ w_ret[2] # nullptr
    /\ cpc = "copy" => RegionShape(r_ret, read_pointer, pending_read_size)

\* The consumer holds a two-region tuple while the producer holds a
\* one-region tuple, after an earlier write that wrapped.
C6_Witness ==
    /\ ppc = "fill"
    /\ cpc = "copy"
    /\ w_ret[1] > 0
    /\ w_ret[3] = 0
    /\ r_ret[3] > 0

\* A step of beginWrite, of beginRead.
BeginWriteStep == InBeginWrite \/ ppc' = "beginWrite_load"
BeginReadStep ==
    /\ cpc = "idle"
    /\ cpc' \in {"idle", "copy"}
    /\ (consumerVars' # consumerVars \/ underflows' # underflows)

\* A step of beginWrite or endWrite, of beginRead or endRead.
WriteCallStep ==
    \/ BeginWriteStep
    \/ (ppc = "idle" /\ ppc' = "endWrite_add")
    \/ ppc = "endWrite_add"
ReadCallStep ==
    \/ BeginReadStep
    \/ (cpc = "idle" /\ cpc' = "endRead_sub")
    \/ cpc \in {"endRead_sub", "endRead_signal"}

\* C10: the write calls leave read_pointer and pending_read_size alone, the
\* read calls leave write_pointer and pending_write_size alone, and neither
\* begin call changes the counter.
C10_OwnSide ==
    [][/\ (producerVars' # producerVars /\ WriteCallStep) =>
              UNCHANGED <<read_pointer, pending_read_size>>
       /\ ((consumerVars' # consumerVars \/ underflows' # underflows)
               /\ ReadCallStep) =>
              UNCHANGED <<write_pointer, pending_write_size>>
       /\ ((producerVars' # producerVars /\ BeginWriteStep) \/ BeginReadStep) =>
              UNCHANGED samples_in_buffer]_vars

\* Both sides have moved their pointer and hold a pending size.
C10_Witness ==
    /\ write_pointer # 0
    /\ read_pointer # 0
    /\ pending_write_size > 0
    /\ pending_read_size > 0

\* Call a is in trace t, and every call a of t comes before every call b.
Made(t, a) == \E i \in 1 .. Len(t) : t[i] = a
Precedes(t, a, b) ==
    \A i, j \in 1 .. Len(t) : (t[i] = a /\ t[j] = b) => i < j

\* The bus is zero over the effect's channels.
BusIsZero == \A i \in BusCells(channels, BLOCK_SIZE) : input_buffer[i] = 0

\* What the filter of a run makes of the input bus the run finds: the filter
\* the run used, started from the history the run found.
FilteredInput ==
    IF channels = 0 THEN input_buffer
    ELSE LET before == IF biquad_filter = NoFilter \/ channels # last_channels
                       THEN createBiquadFilter(channels).hist
                       ELSE biquad_filter.hist
         IN  processBlock([biquad_filter' EXCEPT !.hist = before], input_buffer).buf

\* C7: a call of run filters the input bus in place (an effect of no channels
\* has no samples to filter), then calls runEffect on the filtered bus, then
\* zeroes the bus; when it returns the first channels * BLOCK_SIZE samples of
\* the bus are 0, whatever the routers had added and whatever runEffect left
\* there.
C7_RunOrder ==
    [][time_in_blocks' # time_in_blocks =>
          /\ channels # 0 => Made(run_trace', "processBlock")
          /\ Made(run_trace', "runEffect")
          /\ Made(run_trace', "fill")
          /\ Precedes(run_trace', "processBlock", "runEffect")
          /\ Precedes(run_trace', "runEffect", "fill")
          /\ effect_call'.made
          /\ effect_call'.input = FilteredInput
          /\ BusIsZero']_vars

\* A run has returned whose runEffect was handed a bus that was not zero, on
\* an effect of several channels whose filter has memory.
C7_Witness ==
    /\ time_in_blocks > 1
    /\ channels > 1
    /\ effect_call.made
    /\ \E i \in Cells : effect_call.input[i] # 0
    /\ biquad_filter.cfg = DelayConfig
    /\ routed = {}
    /\ BusIsZero

\* The sum of the blocks of the sources in S, over the effect's channels.
RECURSIVE SumOfBuses(_, _)
SumOfBuses(S, n) ==
    IF n = 0 THEN [i \in Cells |-> 0]
    ELSE LET rest == SumOfBuses(S, n - 1)
         IN  [i \in Cells |->
                 IF n \in S /\ i \in BusCells(channels, BLOCK_SIZE)
                 THEN rest[i] + SourceBus(n)[i] ELSE rest[i]]

Accumulated(S) == SumOfBuses(S, NumSources)

\* C8: the input bus holds exactly what the routers added since the last run
\* returned (all zero when they added nothing), so a run finds only that; and
\* a run hands to its one runEffect invocation what was added since the run
\* before it, through the effect's filter (as it is, when the filter is the
\* identity).
C8_AccumulateThenZero ==
    /\ input_buffer = Accumulated(routed)
    /\ (effect_call.made /\ channels # 0 /\ biquad_filter.cfg = IdentityConfig) =>
           effect_call.input = Accumulated(delivered)
    /\ (effect_call.made /\ channels = 0) => effect_call.input = Accumulated({})

\* After the second run: the sources routed before it and the sources routed
\* since are not the same, and neither set is empty.
C8_Witness ==
    /\ time_in_blocks >= 2
    /\ channels > 1
    /\ delivered # {}
    /\ routed # {}
    /\ routed # delivered
    /\ biquad_filter.cfg = IdentityConfig

\* C9: no call of run creates an object: the audio thread never reaches
\* createBiquadFilter.
C9_NoAllocation == allocations = 0

(* --------------------------------- C11 -------------------------------- *)

C12_MaxAvailableWrite ==
    /\ [][(ppc = "beginWrite_load" /\ ppc' = "fill" /\ w_maxAvailable) =>
            LET observed == size - samples_in_buffer
            IN  /\ w_ret'[1] + w_ret'[3] = observed
                /\ w_ret'[1] + w_ret'[3] >= w_requested
                /\ pending_write_size' = observed]_vars
    /\ [](ppc = "fill" /\ w_maxAvailable =>
            w_ret[1] + w_ret[3] <= size - samples_in_buffer)

\* A maxAvailable call that was granted more than it requested, though not
\* the whole ring, and the consumer has freed more space since.
C12_Witness ==
    /\ ppc = "fill"
    /\ w_maxAvailable
    /\ w_requested > 0
    /\ w_ret[1] + w_ret[3] > w_requested
    /\ w_ret[1] + w_ret[3] < size
    /\ w_ret[1] + w_ret[3] < size - samples_in_buffer

(* --------------------------------- C13 -------------------------------- *)

\* C13: beginRead(requested, true) returns (0, nullptr, 0, nullptr) when the
\* counter it loaded is zero and only then; otherwise it returns regions whose
\* total length is the number of committed samples it loaded, be that less
\* than `requested` or not.
C13_MaxAvailableRead ==
    [][\A requested \in 0 .. size :
          BeginRead(requested, TRUE) =>
              IF samples_in_buffer = 0
              THEN r_ret' = <<0, nullptr, 0, nullptr>> /\ cpc' = "idle"
              ELSE /\ r_ret'[1] + r_ret'[3] = samples_in_buffer
                   /\ r_ret'[1] > 0
                   /\ pending_read_size' = samples_in_buffer
                   /\ cpc' = "copy"]_vars

\* A maxAvailable call that asked for more than was committed holds all that
\* was committed, in two regions.
C13_Witness ==
    /\ cpc = "copy"
    /\ r_maxAvailable
    /\ r_ret[1] + r_ret[3] < r_requested
    /\ r_ret[3] > 0
    /\ r_ret[1] + r_ret[3] = samples_in_buffer

(* --------------------------------- C14 -------------------------------- *)

\* Samples either side has committed since the grants were made.
WriteSum == Len(written) - grant.written
ReadSum == Len(consumed) - grant.consumed

\* C14: after one beginWrite that granted n samples, endWrite calls whose
\* amounts sum to s <= n leave write_pointer, pending_write_size and the
\* counter as the single call endWrite(s) leaves them, and an argument-less
\* endWrite() then commits exactly the remaining n - s samples and leaves
\* pending_write_size 0; endRead does the same on the read side.
C14_ChunkedCommit ==
    /\ [](ppc = "idle" =>
            /\ write_pointer = (grant.write_pointer + WriteSum) % size
            /\ pending_write_size = grant.pending_write_size - WriteSum)
    /\ [](cpc = "idle" =>
            /\ read_pointer = (grant.read_pointer + ReadSum) % size
            /\ pending_read_size = grant.pending_read_size - ReadSum)
    /\ [](ppc = "idle" /\ cpc = "idle" =>
            samples_in_buffer = grant.samples_in_buffer + WriteSum - ReadSum)
    /\ [][EndWriteAll =>
            /\ w_amount' = grant.pending_write_size - WriteSum
            /\ pending_write_size' = 0]_vars
    /\ [][EndReadAll =>
            /\ r_amount' = grant.pending_read_size - ReadSum
            /\ pending_read_size' = 0]_vars

\* Both sides have committed out of their grants, the writer a part of its
\* grant across the end of the ring, with the rest still pending.
C14_Witness ==
    /\ ppc = "idle"
    /\ cpc = "idle"
    /\ WriteSum > 0
    /\ pending_write_size = grant.pending_write_size - WriteSum
    /\ pending_write_size > 0
    /\ write_pointer < grant.write_pointer
    /\ ReadSum > 0
    /\ pending_read_size = grant.pending_read_size - ReadSum

(* --------------------------------- C15 -------------------------------- *)

\* C15: syz_biquadDesignIdentity returns 0 and leaves in the caller's struct,
\* whatever it held before, b0 = 1, b1 = b2 = a1 = a2 = 0 and gain = 1, and
\* no other field.
C15_DesignIdentity ==
    design_call.made =>
        /\ design_call.code = 0
        /\ DOMAIN config = {"b0", "b1", "b2", "a1", "a2", "gain"}
        /\ config.b0 = 1
        /\ config.b1 = 0
        /\ config.b2 = 0
        /\ config.a1 = 0
        /\ config.a2 = 0
        /\ config.gain = 1

\* The call was handed a struct in which every field differed from the
\* identity's, and has returned.
C15_Witness ==
    /\ design_call.made
    /\ design_call.code = 0
    /\ \A f \in DOMAIN config : design_call.filter[f] # config[f]

(* --------------------------------- C16 -------------------------------- *)

\* The n indices that follow pointer p, p included, and the n that precede it.
SlotsFrom(p, n) == {(p + i) % size : i \in 0 .. (n - 1)}
SlotsBefore(p, n) == {(p + size - j) % size : j \in 1 .. n}

\* The indices granted to the producer by beginWrite and not yet published by
\* the fetch_add of an endWrite.
WriteGranted ==
    SlotsFrom(write_pointer, pending_write_size)
        \cup (IF ppc = "endWrite_add" THEN SlotsBefore(write_pointer, w_amount) ELSE {})

\* The indices granted to the consumer by beginRead and not yet released by
\* the fetch_sub of an endRead.
ReadGranted ==
    SlotsFrom(read_pointer, pending_read_size)
        \cup (IF cpc = "endRead_sub" THEN SlotsBefore(read_pointer, r_amount) ELSE {})

\* C16: in every interleaving of the producer and the consumer the indices
\* granted to the producer and the indices granted to the consumer are
\* disjoint: the consumer is granted only slots whose write is committed, the
\* producer only slots that hold no unread sample, and each side touches only
\* what it is granted.
C16_GrantsDisjoint ==
    /\ WriteGranted \cap ReadGranted = {}
    /\ ReadGranted \subseteq UnreadSlots
    /\ WriteGranted \cap UnreadSlots = {}
    /\ ppc = "fill" => RegionSet(w_ret) \subseteq WriteGranted
    /\ cpc = "copy" => RegionSet(r_ret) \subseteq ReadGranted

\* The producer stores into its grant while the consumer copies out of its
\* own, and the two grants make up the whole ring.
C16_Witness ==
    /\ ppc = "fill"
    /\ cpc = "copy"
    /\ WriteGranted # {}
    /\ 0 < Len(r_buf) /\ Len(r_buf) < r_ret[1] + r_ret[3]
    /\ WriteGranted \cup ReadGranted = 0 .. (size - 1)
    /\ Len(consumed) > 0

(* --------------------------------- C17 -------------------------------- *)

====
